---- MODULE Spec2Model ----
(***************************************************************************)
(* Discopic: the arbitrage detector (Arbitrage.calculateOpportunities and  *)
(* Arbitrage.groupByPair) with the fee lookup it shares with Config.getFee,*)
(* the analytics of Arbitrage (filterByPair, filterByMinProfit, sort,      *)
(* getStats, calculateProfitAmount, isValid), CoinAPI (request and its    *)
(* cache, getAllQuotes) and the page of DiscoPicApp (refresh, the demo     *)
(* load, the filters, the settings and the auto-refresh timer).            *)
(*                                                                         *)
(* The specifications share the variables:                                 *)
(*   Spec           one call of the detector on any quote sequence;        *)
(*   SpecAnalytics  the detector on a fetched batch, then the analytics;   *)
(*   SpecApp        refresh: the fetches of getAllQuotes, request by       *)
(*                  request, then the detector;                            *)
(*   SpecAppFair    the same, every step that is due being taken;          *)
(*   SpecRequest    CoinAPI.request over its cache, as time passes;        *)
(*   SpecLoads      the page: refresh, demo load and filters, with         *)
(*                  getAllQuotes taken in one step;                        *)
(*   SpecTimers     the page: refresh, settings and the auto-refresh       *)
(*                  timer, with getAllQuotes taken in one step.            *)
(*                                                                         *)
(* Units.  Percentages (fees, thresholds, profits) are counted in tenths   *)
(* of a percent: the source's 0.1 is 1, 0.5 is 5, 0.6 is 6.  Prices are    *)
(* counted in units of 10 USD, so that the spec's 42000 is 4200.  A profit *)
(* percentage is the exact fraction [num, den] (den > 0) of the source's   *)
(* expression; the rounding of IEEE doubles is not modelled.  Amounts of    *)
(* money are counted in the price unit (1000 USD is 100).  The clock ticks *)
(* every 10000 ms, so that the source's 60000 ms is 6 and its 10000 ms 1.  *)
(* The mock quotes of the demo load alone have prices in units of 0.05 USD.*)
(***************************************************************************)
EXTENDS Integers, Sequences, FiniteSets, TLC

VARIABLES
    quotes, fees, minProfit,   \* the arguments of calculateOpportunities
    quotesByPair,              \* its local
    opportunities,             \* its result
    clock,                     \* Date.now()
    pc,                        \* the call or the event that came last
    input, argument, output,   \* an analytics call or a request: arguments, result
    app,                       \* the fields of DiscoPicApp and the controls of its page
    api                        \* CoinAPI: its cache and the getAllQuotes call in flight

vars == <<quotes, fees, minProfit, quotesByPair, opportunities, clock, pc,
          input, argument, output, app, api>>

\* ------------------------------------------------------------------ bounds

\* Longest quote sequence handed to the detector.
MaxQuotes == 4

\* ------------------------------------------------------------ input domain

\* The optional third argument of a call, as the tail of its argument list:
\* <<>> when the caller leaves minProfit out, <<t>> when it passes t.
Omitted == <<>>

Exchanges == {"BINANCE", "COINBASE", "KRAKEN"}

Pairs == {"BTC/USDT", "ETH/USDT"}

Book(ask, bid, askVolume, bidVolume) ==
    [ask |-> ask, bid |-> bid, askVolume |-> askVolume, bidVolume |-> bidVolume]

\* The top-of-book snapshots an exchange may report for a pair.  For
\* BTC/USDT every exchange may report the BINANCE book of the spec's
\* scenario A (42000/41990), so that three exchanges can agree; COINBASE may
\* also report the scenario's COINBASE book (42500/42480) or a crossed book
\* (its bid above its own ask), so that one exchange can be quoted twice
\* with different books.  For ETH/USDT buying on BINANCE and selling on
\* COINBASE grosses 0.7 percent, which is the two default fees together.
\* KRAKEN does not list ETH/USDT.
Market(exchange, pair) ==
    IF pair = "BTC/USDT"
    THEN { Book(4200, 4199, 20, 31) }
         \cup ( IF exchange = "COINBASE"
                THEN { Book(4250, 4248, 18, 22), Book(4180, 4245, 40, 12) }
                ELSE {} )
    ELSE IF exchange = "BINANCE" THEN { Book(2000, 1999, 155, 182) }
    ELSE IF exchange = "COINBASE" THEN { Book(2020, 2014, 123, 147) }
    ELSE {}

Quote(exchange, pair, book) ==
    [exchange |-> exchange, pair |-> pair, ask |-> book.ask, bid |-> book.bid,
     askVolume |-> book.askVolume, bidVolume |-> book.bidVolume]

Quotes ==
    UNION { { Quote(e, p, b) : b \in Market(e, p) } : e \in Exchanges, p \in Pairs }

SeqsUpTo(S, n) == UNION { [1..k -> S] : k \in 0..n }

\* Fee schedules: the shipped defaults of the first two exchanges, and a
\* schedule with an entry of 0.  Neither has an entry for KRAKEN.
FeeSchedules ==
    { [e \in {"BINANCE", "COINBASE"} |-> IF e = "BINANCE" THEN 1 ELSE 6],
      [e \in {"BINANCE", "COINBASE"} |-> IF e = "BINANCE" THEN 0 ELSE 2] }

\* Thresholds a caller may pass: below zero (-2.0), zero, or none at all,
\* which stands for the documented 0.5.
MinProfits == {Omitted, <<-20>>, <<0>>}

\* -------------------------------------------------------------- arithmetic

\* fees[x] || 0.1 : the fallback when the looked-up entry is falsy.
DefaultFee == 1

\* minProfit = 0.5 : the default of the third parameter.
DefaultMinProfit == 5

Rat(n, d) == [num |-> n, den |-> d]

\* a - b as the sign of a JavaScript comparator's result.
RatCmp(a, b) ==
    LET l == a.num * b.den
        r == b.num * a.den
    IN  IF l < r THEN -1 ELSE IF l > r THEN 1 ELSE 0

RatGeq(a, b) == RatCmp(a, b) >= 0

Min(a, b) == IF a < b THEN a ELSE b

\* ----------------------------------------------------------- groupByPair

IndexOfPair(grouped, pair) ==
    LET hits == { k \in 1..Len(grouped) : grouped[k].pair = pair }
    IN  IF hits = {} THEN 0 ELSE CHOOSE k \in hits : TRUE

\* The object `grouped` as the sequence of its entries in insertion order,
\* which is the order Object.entries walks string keys in.
RECURSIVE groupInto(_, _)
groupInto(grouped, rest) ==
    IF rest = <<>> THEN grouped
    ELSE LET quote == Head(rest)
             k == IndexOfPair(grouped, quote.pair)
         IN  groupInto(
                 IF k = 0
                 THEN Append(grouped, [pair |-> quote.pair, quotes |-> <<quote>>])
                 ELSE [grouped EXCEPT ![k].quotes = Append(@, quote)],
                 Tail(rest))

\* Mutant: every quote filed under the key of the first one.
groupByFirstPair(qs) ==
    IF qs = <<>> THEN <<>> ELSE <<[pair |-> qs[1].pair, quotes |-> qs]>>

groupByPair(qs) == groupInto(<<>>, qs)

\* ------------------------------------------------- calculateOpportunities

\* Mutant: the fallback written as `|| 0`, and only for a missing entry.
FeeForZeroDefault(fs, exchange) ==
    IF exchange \in DOMAIN fs THEN fs[exchange] ELSE 0

\* fees[exchange] || 0.1
FeeFor(fs, exchange) ==
    IF exchange \in DOMAIN fs /\ fs[exchange] # 0 THEN fs[exchange] ELSE DefaultFee

\* Mutant: the `i === j` check left out.
DistinctLegsUnchecked(i, j) == TRUE

\* Mutant: the inner loop started at j = i + 1 (unordered combinations).
DistinctLegsAscending(i, j) == i < j

\* The guard of the inner loop: the positions that get past `i === j`.
DistinctLegs(i, j) == i # j

\* Mutant: the price guard reversed (`if (sellPrice >= buyPrice) continue`).
PriceGapReversed(buyPrice, sellPrice) == sellPrice < buyPrice

\* The guard on the prices: `if (sellPrice <= buyPrice) continue`.
PriceGap(buyPrice, sellPrice) == sellPrice > buyPrice

\* Mutant: the spread taken relative to the sell price.
GrossProfitOverSellPrice(buyPrice, sellPrice) ==
    [num |-> (sellPrice - buyPrice) * 1000, den |-> sellPrice]

\* ((sellPrice - buyPrice) / buyPrice) * 100, in tenths of a percent.
GrossProfit(buyPrice, sellPrice) == Rat((sellPrice - buyPrice) * 1000, buyPrice)

\* grossProfit - totalFee
NetProfit(grossProfit, totalFee) ==
    Rat(grossProfit.num - totalFee * grossProfit.den, grossProfit.den)

\* Mutant: the threshold parameter ignored in favour of 0.
MeetsThresholdOfZero(netProfit, threshold) == netProfit.num >= 0

\* Mutant: the comparison with the threshold reversed.
MeetsThresholdReversed(netProfit, threshold) ==
    netProfit.num <= threshold * netProfit.den

\* The guard on the threshold: `if (netProfit >= minProfit)`.
MeetsThreshold(netProfit, threshold) == RatGeq(netProfit, Rat(threshold, 1))

\* new Date(ms).toISOString(): the instant as text, to the millisecond.
toISOString(ms) == [iso |-> ms]

\* new Date(text).getTime(): the instant the text names.
getTime(text) == text.iso

\* Mutant: the fees grow with the time of the call.
OpportunityCostedByTime(pair, buyExchange, sellExchange, fs, now) ==
    LET buyPrice == buyExchange.ask
        sellPrice == sellExchange.bid
        buyFee == FeeFor(fs, buyExchange.exchange)
        sellFee == FeeFor(fs, sellExchange.exchange)
        totalFee == buyFee + sellFee + now
        grossProfit == GrossProfit(buyPrice, sellPrice)
    IN  [pair |-> pair,
         buyExchange |-> buyExchange.exchange,
         buyPrice |-> buyPrice,
         sellExchange |-> sellExchange.exchange,
         sellPrice |-> sellPrice,
         spread |-> sellPrice - buyPrice,
         grossProfit |-> grossProfit,
         netProfit |-> NetProfit(grossProfit, totalFee),
         buyFee |-> buyFee,
         sellFee |-> sellFee,
         totalFee |-> totalFee,
         volume |-> Min(buyExchange.askVolume, sellExchange.bidVolume),
         timestamp |-> toISOString(now)]

\* The object pushed for the legs (buyExchange, sellExchange) of one pair.
Opportunity(pair, buyExchange, sellExchange, fs, now) ==
    LET buyPrice == buyExchange.ask
        sellPrice == sellExchange.bid
        buyFee == FeeFor(fs, buyExchange.exchange)
        sellFee == FeeFor(fs, sellExchange.exchange)
        totalFee == buyFee + sellFee
        grossProfit == GrossProfit(buyPrice, sellPrice)
    IN  [pair |-> pair,
         buyExchange |-> buyExchange.exchange,
         buyPrice |-> buyPrice,
         sellExchange |-> sellExchange.exchange,
         sellPrice |-> sellPrice,
         spread |-> sellPrice - buyPrice,
         grossProfit |-> grossProfit,
         netProfit |-> NetProfit(grossProfit, totalFee),
         buyFee |-> buyFee,
         sellFee |-> sellFee,
         totalFee |-> totalFee,
         volume |-> Min(buyExchange.askVolume, sellExchange.bidVolume),
         timestamp |-> toISOString(now)]

\* What one round (i, j) of the two loops pushes: nothing or one opportunity.
Emitted(pair, pairQuotes, i, j, fs, threshold, now) ==
    IF ~DistinctLegs(i, j) THEN <<>>
    ELSE IF ~PriceGap(pairQuotes[i].ask, pairQuotes[j].bid) THEN <<>>
    ELSE LET opp == Opportunity(pair, pairQuotes[i], pairQuotes[j], fs, now)
         IN  IF MeetsThreshold(opp.netProfit, threshold) THEN <<opp>> ELSE <<>>

\* The two nested loops over one group, i outer and j inner; round k of
\* n * n is (i, j) = ((k - 1) \div n + 1, (k - 1) % n + 1).
RECURSIVE ScanGroup(_, _, _, _, _, _)
ScanGroup(pair, pairQuotes, k, fs, threshold, now) ==
    LET n == Len(pairQuotes)
    IN  IF n < 2 \/ k > n * n THEN <<>>
        ELSE Emitted(pair, pairQuotes, ((k - 1) \div n) + 1, ((k - 1) % n) + 1,
                     fs, threshold, now)
             \o ScanGroup(pair, pairQuotes, k + 1, fs, threshold, now)

\* The loop over Object.entries(quotesByPair).
RECURSIVE ScanGroups(_, _, _, _)
ScanGroups(groups, fs, threshold, now) ==
    IF groups = <<>> THEN <<>>
    ELSE ScanGroup(Head(groups).pair, Head(groups).quotes, 1, fs, threshold, now)
         \o ScanGroups(Tail(groups), fs, threshold, now)

\* Mutant: the comparator written a.netProfit - b.netProfit.
ByNetProfitAsc(a, b) == RatCmp(a.netProfit, b.netProfit)

\* The comparator (a, b) => b.netProfit - a.netProfit.
ByNetProfitDesc(a, b) == RatCmp(b.netProfit, a.netProfit)

\* Array.prototype.sort with that comparator: a stable sort, each element
\* placed behind every earlier element it does not have to precede.
RECURSIVE InsertSorted(_, _)
InsertSorted(sorted, x) ==
    IF sorted = <<>> THEN <<x>>
    ELSE IF ByNetProfitDesc(x, Head(sorted)) < 0
         THEN <<x>> \o sorted
         ELSE <<Head(sorted)>> \o InsertSorted(Tail(sorted), x)

RECURSIVE SortByNetProfit(_)
SortByNetProfit(opps) ==
    IF opps = <<>> THEN <<>>
    ELSE InsertSorted(SortByNetProfit(SubSeq(opps, 1, Len(opps) - 1)),
                      opps[Len(opps)])

\* The threshold the body sees: the default when the argument is left out.
EffectiveMinProfit(arg) == IF arg = Omitted THEN DefaultMinProfit ELSE arg[1]

calculateOpportunities(qs, fs, arg, now) ==
    SortByNetProfit(ScanGroups(groupByPair(qs), fs, EffectiveMinProfit(arg), now))

\* ------------------------------------------------- numbers of the analytics

\* The analytics add, multiply and divide; their numbers are kept as fractions
\* in lowest terms.  A division by zero gives what JavaScript gives: NaN (0/0)
\* or an infinity (1/0, -1/0).

Abs(n) == IF n < 0 THEN -n ELSE n

Sign(n) == IF n < 0 THEN -1 ELSE IF n > 0 THEN 1 ELSE 0

RECURSIVE Gcd(_, _)
Gcd(a, b) == IF b = 0 THEN a ELSE Gcd(b, a % b)

Lowest(n, d) ==
    LET g == Gcd(Abs(n), Abs(d))
    IN  Rat(Sign(d) * (n \div g), Abs(d) \div g)

Number(n) == Rat(n, 1)

NaN == Rat(0, 0)

IsFinite(x) == x.den # 0

\* a + b, for finite a and b.
Plus(a, b) ==
    LET l == (a.den \div Gcd(a.den, b.den)) * b.den
    IN  Lowest(a.num * (l \div a.den) + b.num * (l \div b.den), l)

\* a - b, for finite a and b.
Minus(a, b) == Plus(a, Rat(-b.num, b.den))

\* a * b.
Times(a, b) ==
    IF IsFinite(a) /\ IsFinite(b)
    THEN LET x == Lowest(a.num, b.den)
             y == Lowest(b.num, a.den)
         IN  Lowest(x.num * y.num, x.den * y.den)
    ELSE Rat(Sign(a.num) * Sign(b.num), 0)

\* a / b, for finite a and b.
Over(a, b) ==
    IF b.num = 0
    THEN Rat(Sign(a.num), 0)
    ELSE Times(a, Rat(Sign(b.num) * b.den, Abs(b.num)))

\* ------------------------------------------------------------- filterByPair

\* The second argument of filterByPair: left out, or the value of the page's
\* pair filter (nothing, "all", a pair).
PairFilters == {Omitted} \cup {<<p>> : p \in {"", "all"} \cup Pairs}

\* Mutant: the test written pair === 'all' alone.
filterByPairOfAllOnly(opps, pair) ==
    IF pair # Omitted /\ pair[1] = "all" THEN opps
    ELSE SelectSeq(opps, LAMBDA opp : pair # Omitted /\ opp.pair = pair[1])

\* filterByPair(opportunities, pair); `!pair` holds of the argument left out
\* and of the empty string.
filterByPair(opps, pair) ==
    IF pair = Omitted \/ pair[1] = "" \/ pair[1] = "all" THEN opps
    ELSE SelectSeq(opps, LAMBDA opp : opp.pair = pair[1])

\* -------------------------------------------------------- filterByMinProfit

\* Mutant: the test written opp.netProfit > minProfit.
filterByMinProfitStrictly(opps, threshold) ==
    SelectSeq(opps, LAMBDA opp : RatCmp(opp.netProfit, Number(threshold)) > 0)

\* filterByMinProfit(opportunities, minProfit).
filterByMinProfit(opps, threshold) ==
    SelectSeq(opps, LAMBDA opp : RatGeq(opp.netProfit, Number(threshold)))

\* --------------------------------------------------------------------- sort

\* The keys the switch of sort knows.
SortKeys == {"profit", "pair", "spread"}

\* The pairs in the order of String.prototype.localeCompare.
Collation == <<"BNB/USDT", "BTC/USDT", "ETH/USDT">>

localeCompare(a, b) ==
    LET rank(s) == CHOOSE i \in 1..Len(Collation) : Collation[i] = s
    IN  Sign(rank(a) - rank(b))

\* The comparator (a, b) => a.pair.localeCompare(b.pair).
ByPair(a, b) == localeCompare(a.pair, b.pair)

\* Mutant: the comparator written a.spread - b.spread.
BySpreadAsc(a, b) == a.spread - b.spread

\* The comparator (a, b) => b.spread - a.spread.
BySpreadDesc(a, b) == b.spread - a.spread

\* The comparator of a case of the switch.
Comparator(sortBy, a, b) ==
    CASE sortBy = "profit" -> ByNetProfitDesc(a, b)
      [] sortBy = "pair" -> ByPair(a, b)
      [] sortBy = "spread" -> BySpreadDesc(a, b)

\* Array.prototype.sort with the comparator of sortBy: stable, as
\* InsertSorted is.
RECURSIVE InsertBy(_, _, _)
InsertBy(sorted, x, sortBy) ==
    IF sorted = <<>> THEN <<x>>
    ELSE IF Comparator(sortBy, x, Head(sorted)) < 0
         THEN <<x>> \o sorted
         ELSE <<Head(sorted)>> \o InsertBy(Tail(sorted), x, sortBy)

RECURSIVE ArraySort(_, _)
ArraySort(array, sortBy) ==
    IF array = <<>> THEN <<>>
    ELSE InsertBy(ArraySort(SubSeq(array, 1, Len(array) - 1), sortBy),
                  array[Len(array)], sortBy)

\* Mutant: sorted bound to the argument itself, const sorted = opportunities.
sortCallInPlace(opps, sortBy) ==
    LET sorted == IF sortBy \in SortKeys THEN ArraySort(opps, sortBy) ELSE opps
    IN  [argument |-> sorted, returned |-> sorted]

\* One call of sort(opportunities, sortBy): the array it returns and the
\* argument array as the call leaves it.  Array.prototype.sort reorders the
\* array it is called on; sort calls it on sorted, the copy [...opportunities].
sortCall(opps, sortBy) ==
    LET sorted == opps
    IN  [argument |-> opps,
         returned |-> IF sortBy \in SortKeys THEN ArraySort(sorted, sortBy)
                      ELSE sorted]

sort(opps, sortBy) == sortCall(opps, sortBy).returned

\* ----------------------------------------------------------------- getStats

\* profits.reduce((a, b) => a + b, 0)
RECURSIVE SumOfProfits(_)
SumOfProfits(profits) ==
    IF profits = <<>> THEN Number(0)
    ELSE Plus(SumOfProfits(SubSeq(profits, 1, Len(profits) - 1)),
              profits[Len(profits)])

\* volumes.reduce((a, b) => a + b, 0)
RECURSIVE SumOfVolumes(_)
SumOfVolumes(volumes) ==
    IF volumes = <<>> THEN 0
    ELSE SumOfVolumes(SubSeq(volumes, 1, Len(volumes) - 1)) + volumes[Len(volumes)]

\* Math.max(...profits); -Infinity of no argument.
RECURSIVE MathMax(_)
MathMax(profits) ==
    IF profits = <<>> THEN Rat(-1, 0)
    ELSE LET rest == MathMax(SubSeq(profits, 1, Len(profits) - 1))
             last == profits[Len(profits)]
         IN  IF ~IsFinite(rest) \/ RatCmp(last, rest) > 0 THEN last ELSE rest

\* Mutant: the body without its test for the empty sequence.
getStatsUnguarded(opps) ==
    LET profits == [k \in 1..Len(opps) |-> opps[k].netProfit]
        volumes == [k \in 1..Len(opps) |-> opps[k].volume]
    IN  [count |-> Len(opps),
         avgProfit |-> Over(SumOfProfits(profits), Number(Len(profits))),
         maxProfit |-> MathMax(profits),
         totalVolume |-> SumOfVolumes(volumes)]

\* getStats(opportunities).
getStats(opps) ==
    IF Len(opps) = 0
    THEN [count |-> 0, avgProfit |-> Number(0), maxProfit |-> Number(0),
          totalVolume |-> 0]
    ELSE LET profits == [k \in 1..Len(opps) |-> opps[k].netProfit]
             volumes == [k \in 1..Len(opps) |-> opps[k].volume]
         IN  [count |-> Len(opps),
              avgProfit |-> Over(SumOfProfits(profits), Number(Len(profits))),
              maxProfit |-> MathMax(profits),
              totalVolume |-> SumOfVolumes(volumes)]

\* ---------------------------------------------------- calculateProfitAmount

\* The opportunity of the spec's scenario C: 42000 to 42500, fees 0.1 and 0.6.
ScenarioC ==
    [pair |-> "BTC/USDT", buyExchange |-> "BINANCE", buyPrice |-> 4200,
     sellExchange |-> "COINBASE", sellPrice |-> 4250, spread |-> 50,
     grossProfit |-> GrossProfit(4200, 4250),
     netProfit |-> NetProfit(GrossProfit(4200, 4250), 7),
     buyFee |-> 1, sellFee |-> 6, totalFee |-> 7, volume |-> 20,
     timestamp |-> toISOString(0)]

\* The amounts a caller invests; the page invests 1000 USD.
Investments == {-100, 0, 100}

\* A fee of the model, in tenths of a percent, as the number of percent the
\* opportunity holds.
Percent(fee) == Lowest(fee, 10)

\* Mutant: profit taken from sellValue, the sell fee forgotten.
calculateProfitAmountBeforeSellFee(opportunity, investmentAmount) ==
    LET buyAmount == Over(Number(investmentAmount), Number(opportunity.buyPrice))
        buyFeeAmount == Over(Times(buyAmount, Percent(opportunity.buyFee)), Number(100))
        netBuyAmount == Minus(buyAmount, buyFeeAmount)
        sellValue == Times(netBuyAmount, Number(opportunity.sellPrice))
        sellFeeAmount == Over(Times(sellValue, Percent(opportunity.sellFee)), Number(100))
        netSellValue == Minus(sellValue, sellFeeAmount)
        profit == Minus(sellValue, Number(investmentAmount))
        profitPercent == Times(Over(profit, Number(investmentAmount)), Number(100))
    IN  [investmentAmount |-> Number(investmentAmount),
         buyAmount |-> buyAmount,
         buyFeeAmount |-> buyFeeAmount,
         netBuyAmount |-> netBuyAmount,
         sellValue |-> sellValue,
         sellFeeAmount |-> sellFeeAmount,
         netSellValue |-> netSellValue,
         profit |-> profit,
         profitPercent |-> profitPercent]

\* calculateProfitAmount(opportunity, investmentAmount): no statement of it
\* throws, whatever the amount.
calculateProfitAmount(opportunity, investmentAmount) ==
    LET buyAmount == Over(Number(investmentAmount), Number(opportunity.buyPrice))
        buyFeeAmount == Over(Times(buyAmount, Percent(opportunity.buyFee)), Number(100))
        netBuyAmount == Minus(buyAmount, buyFeeAmount)
        sellValue == Times(netBuyAmount, Number(opportunity.sellPrice))
        sellFeeAmount == Over(Times(sellValue, Percent(opportunity.sellFee)), Number(100))
        netSellValue == Minus(sellValue, sellFeeAmount)
        profit == Minus(netSellValue, Number(investmentAmount))
        profitPercent == Times(Over(profit, Number(investmentAmount)), Number(100))
    IN  [investmentAmount |-> Number(investmentAmount),
         buyAmount |-> buyAmount,
         buyFeeAmount |-> buyFeeAmount,
         netBuyAmount |-> netBuyAmount,
         sellValue |-> sellValue,
         sellFeeAmount |-> sellFeeAmount,
         netSellValue |-> netSellValue,
         profit |-> profit,
         profitPercent |-> profitPercent]

\* ------------------------------------------------------------------ isValid

\* maxAge = 60000 : the default of the second parameter, in ticks.
DefaultMaxAge == 6

\* The second argument of isValid: left out, or an age in ticks.
MaxAges == {Omitted, <<1>>, <<3>>}

EffectiveMaxAge(maxAge) == IF maxAge = Omitted THEN DefaultMaxAge ELSE maxAge[1]

\* Mutant: the test written age <= maxAge.
isValidAtMaxAge(opportunity, maxAge, now) ==
    LET age == now - getTime(opportunity.timestamp)
    IN  age <= EffectiveMaxAge(maxAge) /\ RatCmp(opportunity.netProfit, Number(0)) > 0

\* isValid(opportunity, maxAge), with now what Date.now() returns.
isValid(opportunity, maxAge, now) ==
    LET age == now - getTime(opportunity.timestamp)
    IN  age < EffectiveMaxAge(maxAge) /\ RatCmp(opportunity.netProfit, Number(0)) > 0

\* ------------------------------------------------------------ the fetches

\* Config.getPairs() and the lists Config.getExchanges() may hold.
ConfiguredPairs == <<"BTC/USDT", "ETH/USDT">>

ExchangeLists == {<<"BINANCE", "COINBASE">>, <<"BINANCE", "COINBASE", "KRAKEN">>}

\* A book whose asks came back empty: asks[0]?.price || null.
WithoutAsk(book) == [book EXCEPT !.ask = 0, !.askVolume = 0]

\* What getOrderbook can resolve to: null (the request failed or the data
\* lacks asks or bids), a book of the market, or a book with no ask.
Orderbooks(exchange, pair) ==
    {<<>>} \cup {<<book>> : book \in Market(exchange, pair)}
           \cup {<<WithoutAsk(book)>> : book \in Market(exchange, pair)}

\* Mutant: a book taken as it comes, `if (orderbook)`.
QuoteOfAnyBook(exchange, pair, orderbook) ==
    IF orderbook # <<>>
    THEN <<Quote(exchange, pair, orderbook[1])>>
    ELSE <<>>

\* What one exchange adds to the quotes of getQuotesForPair: the callback of
\* exchanges.map returns a quote or null, and the nulls are filtered out.
QuoteOf(exchange, pair, orderbook) ==
    IF orderbook # <<>> /\ orderbook[1].ask # 0 /\ orderbook[1].bid # 0
    THEN <<Quote(exchange, pair, orderbook[1])>>
    ELSE <<>>

\* results.filter(quote => quote !== null), over the settled orderbooks of
\* the exchanges from position k on.
RECURSIVE QuotesOfPair(_, _, _, _)
QuotesOfPair(pair, exchanges, orderbooks, k) ==
    IF k > Len(exchanges) THEN <<>>
    ELSE QuoteOf(exchanges[k], pair, orderbooks[k])
         \o QuotesOfPair(pair, exchanges, orderbooks, k + 1)

\* Every sequence getAllQuotes can return for the pairs from position p on.
RECURSIVE Batches(_, _, _)
Batches(exchanges, p, k) ==
    IF p > Len(ConfiguredPairs) THEN {<<>>}
    ELSE IF k > Len(exchanges) THEN Batches(exchanges, p + 1, 1)
    ELSE LET here == UNION {{QuoteOf(exchanges[k], ConfiguredPairs[p], o)} :
                               o \in Orderbooks(exchanges[k], ConfiguredPairs[p])}
         IN  {q \o rest : q \in here, rest \in Batches(exchanges, p, k + 1)}

\* ------------------------------------------------------------------ request

\* formatPair(pair): pair.replace('/', '_').
formatPair(pair) == IF pair = "BTC/USDT" THEN "BTC_USDT" ELSE "ETH_USDT"

\* The URL of the order book of a pair on an exchange, by its symbolId.
Url(exchange, pair) == <<exchange, "SPOT", formatPair(pair)>>

Urls == {Url(exchange, pair) : exchange \in Exchanges, pair \in Pairs}

\* cacheDuration: 10000, in ticks.
CacheDuration == 1

\* What a fetch can settle with: a failure (a status that is not OK, or a
\* network error), or the data of a book, its asks empty or not.
Responses(exchange, pair) ==
    {[ok |-> FALSE, data |-> <<>>]}
        \cup {[ok |-> TRUE, data |-> orderbook] :
                 orderbook \in Orderbooks(exchange, pair) \ {<<>>}}

\* Mutant: an entry served as long as it is not older than cacheDuration.
CacheHitAtDuration(cache, url, now) ==
    /\ cache[url] # <<>>
    /\ now - cache[url][1].timestamp <= CacheDuration

\* cached && Date.now() - cached.timestamp < this.cacheDuration
CacheHit(cache, url, now) ==
    /\ cache[url] # <<>>
    /\ now - cache[url][1].timestamp < CacheDuration

\* Mutant: the response stored whatever its status.
StoredAlways(cache, url, response, now) ==
    [cache EXCEPT ![url] = <<[data |-> response.data, timestamp |-> now]>>]

\* The cache after a fetch of url has settled with response at time now:
\* this.cache.set(url, {data, timestamp: Date.now()}) stands behind the throw
\* of a response that is not OK.
Stored(cache, url, response, now) ==
    IF response.ok
    THEN [cache EXCEPT ![url] = <<[data |-> response.data, timestamp |-> now]>>]
    ELSE cache

\* What getOrderbook makes of a settled request: the book of the data, null
\* of a failure.
OrderbookOf(response) == IF response.ok THEN response.data ELSE <<>>

\* ------------------------------------------------------------- getAllQuotes

\* CoinAPI with no call in flight and nothing cached; calls counts the
\* calls of getAllQuotes that have not returned.
Idle ==
    [pair |-> 0, orderbooks |-> <<>>, settled |-> {}, delaying |-> FALSE,
     allQuotes |-> <<>>, issued |-> <<>>, inflight |-> {},
     cache |-> [url \in Urls |-> <<>>], calls |-> 0]

\* CoinAPI as a call of getAllQuotes enters its loop.
Called(a) ==
    [Idle EXCEPT !.cache = a.cache, !.inflight = a.inflight,
                 !.calls = a.calls + 1]

\* CoinAPI after a call of getAllQuotes has returned.
Returning(a) ==
    [Idle EXCEPT !.cache = a.cache, !.inflight = a.inflight,
                 !.calls = a.calls - 1]

\* Mutant: the pair is over with the first request that settles
\* (Promise.race in the place of Promise.all).
AwaitedAny(a, exchanges) == a.settled # {}

\* Promise.all(promises) resolves: every request of the pair has settled.
Awaited(a, exchanges) == a.settled = 1..Len(exchanges)

\* The call at the await of getQuotesForPair for the pair at position p:
\* exchanges.map has called getOrderbook once for every exchange, and a
\* request is in flight for each that the cache does not answer.
Fetching(a, p, exchanges, now) ==
    LET url(k) == Url(exchanges[k], ConfiguredPairs[p])
        hits == {k \in 1..Len(exchanges) : CacheHit(a.cache, url(k), now)}
    IN  [a EXCEPT
           !.pair = p,
           !.orderbooks = [k \in 1..Len(exchanges) |->
                              IF k \in hits THEN a.cache[url(k)][1].data ELSE <<>>],
           !.settled = hits,
           !.delaying = FALSE,
           !.issued = @ \o [k \in 1..Len(exchanges) |->
                               <<ConfiguredPairs[p], exchanges[k]>>],
           !.inflight = @ \cup {url(k) : k \in (1..Len(exchanges)) \ hits}]

\* The calls of getOrderbook that getAllQuotes makes for the pairs up to
\* position p, in their order.
RECURSIVE IssuedUpTo(_, _)
IssuedUpTo(p, exchanges) ==
    IF p = 0 THEN <<>>
    ELSE IssuedUpTo(p - 1, exchanges)
         \o [k \in 1..Len(exchanges) |-> <<ConfiguredPairs[p], exchanges[k]>>]

\* ------------------------------------------------------------- DiscoPicApp

\* The values the page's minimum-profit field may hold when it is read:
\* nothing that parses, 0, 0.5.
MinProfitValues == {Omitted, <<0>>, <<5>>}

\* The values of the page's pair filter and of its sort selector.
PairFilterValues == {<<"all">>, <<"ETH/USDT">>}

SortByValues == {"profit", "pair"}

\* parseFloat(this.elements.minProfitFilter.value) || 0
ParsedMinProfit(value) == IF value = Omitted \/ value[1] = 0 THEN 0 ELSE value[1]

\* What applyFilters stores in filteredOpportunities.
applyFilters(opps, pairFilter, value, sortBy) ==
    sort(filterByMinProfit(filterByPair(opps, pairFilter), ParsedMinProfit(value)),
         sortBy)

\* The application after its constructor, which ends with init(): the
\* minimum-profit field holds the configured default, and the key is asked
\* for when there is none.  apiKey is Config.hasApiKey(), exchanges is
\* Config.getExchanges(); timers holds the interval timers of the window
\* that have not been cleared, and autoRefreshInterval is 0 for null.
Constructed(apiKey, exchanges) ==
    [apiKey |-> apiKey, exchanges |-> exchanges, isLoading |-> FALSE,
     opportunities |-> <<>>, filteredOpportunities |-> <<>>,
     status |-> IF apiKey THEN "Ready to monitor" ELSE "",
     error |-> IF apiKey THEN ""
               ELSE "Please configure your API key in settings to start monitoring.",
     pairFilter |-> <<"all">>, minProfitFilter |-> <<DefaultMinProfit>>,
     sortBy |-> "profit",
     autoRefreshToggle |-> FALSE, autoRefreshInterval |-> 0, timers |-> {}]

\* The application and CoinAPI, as a handler leaves them.
Both(a, c) == [app |-> a, api |-> c]

\* applyFilters() on the application a.
Applied(a) ==
    [a EXCEPT !.filteredOpportunities =
                  applyFilters(a.opportunities, a.pairFilter, a.minProfitFilter,
                               a.sortBy)]

\* Mutant: refresh() without its guard on isLoading.
refreshUnguarded(a, c, now) ==
    IF ~a.apiKey
    THEN Both([a EXCEPT !.error = "Please configure your API key in settings.",
                        !.minProfitFilter = <<DefaultMinProfit>>], c)
    ELSE Both([a EXCEPT !.isLoading = TRUE,
                        !.status = "Fetching market data...",
                        !.error = ""],
              Fetching(Called(c), 1, a.exchanges, now))

\* refresh() up to its first return or await: nothing while a refresh is
\* loading; without a key the error, and the settings opened
\* (loadSettingsToUI resets the minimum-profit field); otherwise isLoading
\* is set and getAllQuotes has called getOrderbook for the first pair.
refresh(a, c, now) ==
    IF a.isLoading THEN Both(a, c)
    ELSE IF ~a.apiKey
    THEN Both([a EXCEPT !.error = "Please configure your API key in settings.",
                        !.minProfitFilter = <<DefaultMinProfit>>], c)
    ELSE Both([a EXCEPT !.isLoading = TRUE,
                        !.status = "Fetching market data...",
                        !.error = ""],
              Fetching(Called(c), 1, a.exchanges, now))

\* Mutant: the timer is forgotten without being cleared.
stopAutoRefreshWithoutClear(a) ==
    [a EXCEPT !.autoRefreshInterval = 0]

\* stopAutoRefresh(): clearInterval and null, if there is a timer.
stopAutoRefresh(a) ==
    IF a.autoRefreshInterval # 0
    THEN [a EXCEPT !.timers = @ \ {a.autoRefreshInterval},
                   !.autoRefreshInterval = 0]
    ELSE a

\* The id setInterval returns: one that no live timer has.
NewTimer(timers) == CHOOSE id \in 1..(Cardinality(timers) + 1) : id \notin timers

\* Mutant: a timer started without stopping the one before.
startAutoRefreshWithoutStop(a, c, now) ==
    LET id == NewTimer(a.timers)
    IN  refresh([a EXCEPT !.autoRefreshInterval = id, !.timers = @ \cup {id}],
                c, now)

\* startAutoRefresh(): stopAutoRefresh(), setInterval, and the initial
\* refresh().
startAutoRefresh(a, c, now) ==
    LET stopped == stopAutoRefresh(a)
        id == NewTimer(stopped.timers)
    IN  refresh([stopped EXCEPT !.autoRefreshInterval = id, !.timers = @ \cup {id}],
                c, now)

\* ------------------------------------------------------------ state machine

\* The state before any call, but for the quotes and the application.
Fresh ==
    /\ fees \in FeeSchedules
    /\ minProfit = Omitted
    /\ quotesByPair = <<>>
    /\ opportunities = <<>>
    /\ clock = 0
    /\ pc = "ready"
    /\ input = <<>>
    /\ argument = Omitted
    /\ output = <<>>
    /\ api = Idle

Init ==
    /\ quotes \in SeqsUpTo(Quotes, MaxQuotes)
    /\ app = Constructed(TRUE, <<"BINANCE", "COINBASE", "KRAKEN">>)
    /\ Fresh

\* A caller invokes calculateOpportunities(quotes, fees, ...arg).  The state
\* keeps the call's local quotesByPair beside its result; every `new Date()`
\* of the call reads the clock, which has moved on afterwards.
Detect(arg) ==
    /\ pc = "ready"
    /\ minProfit' = arg
    /\ quotesByPair' = groupByPair(quotes)
    /\ opportunities' = calculateOpportunities(quotes, fees, arg, clock)
    /\ clock' = clock + 1
    /\ pc' = "returned"
    /\ UNCHANGED <<quotes, fees, input, argument, output, app, api>>

Next == \E arg \in MinProfits : Detect(arg)

Spec == Init /\ [][Next]_vars

\* ------------------------------------------------- the analytics, in use

\* The latest tick of the clock.
MaxClock == 7

\* The quotes are a batch getAllQuotes can return.
InitAnalytics ==
    /\ quotes \in Batches(<<"BINANCE", "COINBASE", "KRAKEN">>, 1, 1)
    /\ app = Constructed(TRUE, <<"BINANCE", "COINBASE", "KRAKEN">>)
    /\ Fresh

\* The calls that return a sequence of opportunities.
ArrayCalls == {"filterByPair", "filterByMinProfit", "sort"}

\* The sequences of opportunities the caller holds.
Held == {opportunities} \cup (IF pc \in ArrayCalls THEN {output} ELSE {})

\* The caller takes one of the sequences it holds as the first argument of
\* the analytics calls that follow.
Hand(opps) ==
    /\ pc \notin {"ready", "handed"}
    /\ input' = opps
    /\ argument' = Omitted
    /\ output' = <<>>
    /\ pc' = "handed"
    /\ UNCHANGED <<quotes, fees, minProfit, quotesByPair, opportunities, clock, app, api>>

\* The analytics are called one call to a hand-over.
Handed == pc = "handed"

FilterByPair(pair) ==
    /\ Handed
    /\ argument' = pair
    /\ output' = filterByPair(input, pair)
    /\ pc' = "filterByPair"
    /\ UNCHANGED <<quotes, fees, minProfit, quotesByPair, opportunities, clock, input, app, api>>

FilterByMinProfit(threshold) ==
    /\ Handed
    /\ argument' = <<threshold>>
    /\ output' = filterByMinProfit(input, threshold)
    /\ pc' = "filterByMinProfit"
    /\ UNCHANGED <<quotes, fees, minProfit, quotesByPair, opportunities, clock, input, app, api>>

Sort(sortBy) ==
    /\ Handed
    /\ argument' = <<sortBy>>
    /\ input' = sortCall(input, sortBy).argument
    /\ output' = sortCall(input, sortBy).returned
    /\ pc' = "sort"
    /\ UNCHANGED <<quotes, fees, minProfit, quotesByPair, opportunities, clock, app, api>>

GetStats ==
    /\ Handed
    /\ argument' = Omitted
    /\ output' = getStats(input)
    /\ pc' = "getStats"
    /\ UNCHANGED <<quotes, fees, minProfit, quotesByPair, opportunities, clock, input, app, api>>

\* The opportunities a caller may cost: those of the input, and scenario C's.
Costed == {input[k] : k \in 1..Len(input)} \cup {ScenarioC}

CalculateProfitAmount(opportunity, investmentAmount) ==
    /\ Handed
    /\ argument' = <<opportunity, investmentAmount>>
    /\ output' = calculateProfitAmount(opportunity, investmentAmount)
    /\ pc' = "calculateProfitAmount"
    /\ UNCHANGED <<quotes, fees, minProfit, quotesByPair, opportunities, clock, input, app, api>>

\* isValid reads the clock, which has reached now by the time of the call.
IsValid(k, maxAge, now) ==
    /\ Handed
    /\ k \in 1..Len(input)
    /\ now >= clock
    /\ clock' = now
    /\ argument' = <<k, maxAge>>
    /\ output' = isValid(input[k], maxAge, now)
    /\ pc' = "isValid"
    /\ UNCHANGED <<quotes, fees, minProfit, quotesByPair, opportunities, input, app, api>>

NextAnalytics ==
    \/ \E arg \in MinProfits : Detect(arg)
    \/ \E opps \in Held : Hand(opps)
    \/ \E pair \in PairFilters : FilterByPair(pair)
    \/ \E threshold \in {0, DefaultMinProfit, EffectiveMinProfit(minProfit)} : FilterByMinProfit(threshold)
    \/ \E sortBy \in SortKeys \cup {"volume"} : Sort(sortBy)
    \/ GetStats
    \/ \E opportunity \in Costed, investmentAmount \in Investments :
           CalculateProfitAmount(opportunity, investmentAmount)
    \/ \E k \in 1..Len(input), maxAge \in MaxAges, now \in 1..MaxClock :
           IsValid(k, maxAge, now)

SpecAnalytics == InitAnalytics /\ [][NextAnalytics]_vars

\* ------------------------------------------------------ refresh, in steps

\* The application before its first refresh, the minimum-profit field as the
\* user has left it.
InitApp ==
    /\ quotes = <<>>
    /\ app \in {[Constructed(apiKey, exchanges) EXCEPT !.minProfitFilter = value] :
                   apiKey \in BOOLEAN, exchanges \in ExchangeLists,
                   value \in MinProfitValues}
    /\ Fresh

\* refresh() without an API key: the error is shown and nothing is fetched.
RefreshWithoutKey ==
    /\ pc = "ready"
    /\ ~app.isLoading
    /\ ~app.apiKey
    /\ app' = refresh(app, api, clock).app
    /\ pc' = "unconfigured"
    /\ UNCHANGED <<quotes, fees, minProfit, quotesByPair, opportunities, clock,
                   input, argument, output, api>>

\* refresh() up to its await, for the first time or again after a refresh
\* that found no data: getAllQuotes has entered its loop and
\* getQuotesForPair has called getOrderbook for the first pair.
RefreshStart ==
    /\ pc \in {"ready", "nodata"}
    /\ ~app.isLoading
    /\ app.apiKey
    /\ app' = refresh(app, api, clock).app
    /\ api' = refresh(app, api, clock).api
    /\ pc' = "fetching"
    /\ UNCHANGED <<quotes, fees, minProfit, quotesByPair, opportunities, clock,
                   input, argument, output>>

\* The request of the exchange at position k settles, and getOrderbook
\* with it.
Settle(k, response) ==
    /\ api.pair \in 1..Len(ConfiguredPairs)
    /\ ~api.delaying
    /\ k \in 1..Len(app.exchanges)
    /\ k \notin api.settled
    /\ response \in Responses(app.exchanges[k], ConfiguredPairs[api.pair])
    /\ LET url == Url(app.exchanges[k], ConfiguredPairs[api.pair])
       IN  api' = [api EXCEPT !.orderbooks[k] = OrderbookOf(response),
                              !.settled = @ \cup {k},
                              !.inflight = @ \ {url},
                              !.cache = Stored(@, url, response, clock)]
    /\ UNCHANGED <<quotes, fees, minProfit, quotesByPair, opportunities, clock,
                   pc, input, argument, output, app>>

\* Promise.all of a pair resolves: its quotes are pushed and the delay
\* between pairs begins.
PairDone ==
    /\ api.pair \in 1..Len(ConfiguredPairs)
    /\ ~api.delaying
    /\ Awaited(api, app.exchanges)
    /\ api' = [api EXCEPT
                 !.allQuotes = @ \o QuotesOfPair(ConfiguredPairs[api.pair],
                                                 app.exchanges, api.orderbooks, 1),
                 !.delaying = TRUE]
    /\ UNCHANGED <<quotes, fees, minProfit, quotesByPair, opportunities, clock,
                   pc, input, argument, output, app>>

\* The delay is over: the loop goes on to the next pair, or getAllQuotes
\* returns.
DelayDone ==
    /\ api.pair \in 1..Len(ConfiguredPairs)
    /\ api.delaying
    /\ api' = IF api.pair < Len(ConfiguredPairs)
              THEN Fetching(api, api.pair + 1, app.exchanges, clock)
              ELSE [api EXCEPT !.pair = api.pair + 1, !.delaying = FALSE]
    /\ UNCHANGED <<quotes, fees, minProfit, quotesByPair, opportunities, clock,
                   pc, input, argument, output, app>>

\* getAllQuotes has returned to refresh.
Resumed == api.pair = Len(ConfiguredPairs) + 1

\* Mutant: the branch returns without the finally.
RefreshNoDataWithoutFinally ==
    /\ Resumed
    /\ api.allQuotes = <<>>
    /\ app' = [app EXCEPT
                 !.error = "No market data available. Please check your configuration.",
                 !.status = "No data",
                 !.opportunities = <<>>]
    /\ api' = Returning(api)
    /\ pc' = "nodata"
    /\ UNCHANGED <<quotes, fees, minProfit, quotesByPair, opportunities, clock,
                   input, argument, output>>

\* refresh() after its await, no quote having arrived.
RefreshNoData ==
    /\ Resumed
    /\ api.allQuotes = <<>>
    /\ app' = [app EXCEPT
                 !.error = "No market data available. Please check your configuration.",
                 !.status = "No data",
                 !.opportunities = <<>>,
                 !.isLoading = FALSE]
    /\ api' = Returning(api)
    /\ pc' = "nodata"
    /\ UNCHANGED <<quotes, fees, minProfit, quotesByPair, opportunities, clock,
                   input, argument, output>>

\* refresh() after its await, with quotes: the detector is called on them
\* with the minimum-profit field of the page, and applyFilters follows.
RefreshDetect ==
    /\ Resumed
    /\ api.allQuotes # <<>>
    /\ LET threshold == <<ParsedMinProfit(app.minProfitFilter)>>
           found == calculateOpportunities(api.allQuotes, fees, threshold, clock)
       IN  /\ quotes' = api.allQuotes
           /\ minProfit' = threshold
           /\ quotesByPair' = groupByPair(api.allQuotes)
           /\ opportunities' = found
           /\ app' = [Applied([app EXCEPT !.opportunities = found])
                         EXCEPT !.status = "Found opportunities",
                                !.isLoading = FALSE]
    /\ api' = Returning(api)
    /\ pc' = "returned"
    /\ UNCHANGED <<fees, clock, input, argument, output>>

\* refresh() after its await, something in its try throwing before
\* this.opportunities is assigned: the catch shows the error, and finally
\* runs.
RefreshThrows ==
    /\ Resumed
    /\ app' = [app EXCEPT !.error = "error.message",
                          !.status = "Error",
                          !.isLoading = FALSE]
    /\ api' = Returning(api)
    /\ pc' = "error"
    /\ UNCHANGED <<quotes, fees, minProfit, quotesByPair, opportunities, clock,
                   input, argument, output>>

NextApp ==
    \/ RefreshWithoutKey
    \/ RefreshStart
    \/ \E k \in 1..Len(app.exchanges) :
           \E response \in UNION {Responses(app.exchanges[k], pair) : pair \in Pairs} :
               Settle(k, response)
    \/ PairDone
    \/ DelayDone
    \/ RefreshNoData
    \/ RefreshDetect
    \/ RefreshThrows

SpecApp == InitApp /\ [][NextApp]_vars

\* The same, every step that is due being taken in the end: a fetch settles
\* (the browser answers it or fails it), a promise that can resolve does, the
\* delay's timeout fires, and the rest of refresh runs once getAllQuotes has
\* returned.
SpecAppFair ==
    /\ SpecApp
    /\ WF_vars(\E k \in 1..Len(app.exchanges) :
                   \E response \in UNION {Responses(app.exchanges[k], pair) :
                                             pair \in Pairs} :
                       Settle(k, response))
    /\ WF_vars(PairDone)
    /\ WF_vars(DelayDone)
    /\ WF_vars(RefreshNoData \/ RefreshThrows \/ RefreshDetect)

\* ------------------------------------------------- the page, in use

\* mockQuotes of loadDemoData.  Its prices have cents, so they are counted
\* here in units of 0.05 USD, the largest unit that keeps them whole; the
\* percentages of the detector do not depend on the unit.  Volumes are in
\* tenths as everywhere.
MockQuotes ==
    << Quote("BINANCE", "BTC/USDT", Book(843010, 842964, 25, 31)),
       Quote("COINBASE", "BTC/USDT", Book(843915, 843868, 18, 22)),
       Quote("KRAKEN", "BTC/USDT", Book(843366, 843322, 32, 29)),
       Quote("BITFINEX", "BTC/USDT", Book(843618, 843570, 21, 25)),
       Quote("BINANCE", "ETH/USDT", Book(44916, 44904, 155, 182)),
       Quote("COINBASE", "ETH/USDT", Book(45046, 45034, 123, 147)),
       Quote("KRAKEN", "ETH/USDT", Book(44972, 44960, 168, 151)),
       Quote("BITFINEX", "ETH/USDT", Book(45008, 44996, 132, 165)),
       Quote("BINANCE", "BNB/USDT", Book(6249, 6244, 452, 528)),
       Quote("COINBASE", "BNB/USDT", Book(6292, 6287, 385, 412)),
       Quote("KRAKEN", "BNB/USDT", Book(6264, 6259, 421, 486)),
       Quote("BITFINEX", "BNB/USDT", Book(6277, 6272, 397, 443)) >>

\* The application with two exchanges configured, with or without a key.
InitLoads ==
    /\ quotes = <<>>
    /\ app \in {Constructed(apiKey, <<"BINANCE", "COINBASE">>) : apiKey \in BOOLEAN}
    /\ Fresh

\* A handler of the page runs in a turn of its own, and leaves the detector's
\* last call alone: the rest of refresh runs in the turn in which
\* getAllQuotes returns, before any other handler.
PageOnly ==
    /\ ~Resumed
    /\ UNCHANGED <<quotes, fees, minProfit, quotesByPair, opportunities, clock,
                   input, argument, output>>

\* A click on the refresh button.
ClickRefresh ==
    /\ app' = refresh(app, api, clock).app
    /\ api' = refresh(app, api, clock).api
    /\ pc' = "refresh"
    /\ PageOnly

\* The callback of a live interval timer: () => this.refresh().
TimerFires ==
    /\ app.timers # {}
    /\ app' = refresh(app, api, clock).app
    /\ api' = refresh(app, api, clock).api
    /\ pc' = "timer"
    /\ PageOnly

\* The auto-refresh box changes: toggleAutoRefresh(e.target.checked).
ToggleAutoRefresh ==
    LET enabled == ~app.autoRefreshToggle
        toggled == [app EXCEPT !.autoRefreshToggle = enabled]
        left == IF enabled THEN startAutoRefresh(toggled, api, clock)
                ELSE Both(stopAutoRefresh(toggled), api)
    IN  /\ app' = left.app
        /\ api' = left.api
        /\ pc' = IF enabled THEN "started" ELSE "stopped"
        /\ PageOnly

\* openSettings(): loadSettingsToUI puts the configured default back into
\* the minimum-profit field.
OpenSettings ==
    /\ app' = [app EXCEPT !.minProfitFilter = <<DefaultMinProfit>>]
    /\ pc' = "settings"
    /\ UNCHANGED api
    /\ PageOnly

\* saveSettings(), the settings as they were loaded but for the key: with no
\* pair selected, or when Config.save fails, an error and nothing else.
SaveSettings(selected, saved, key) ==
    LET kept == [app EXCEPT !.apiKey = key,
                            !.minProfitFilter = <<DefaultMinProfit>>,
                            !.status = "Settings saved"]
        left == IF ~selected
                THEN Both([app EXCEPT !.error = "Please select at least one trading pair."],
                          api)
                ELSE IF ~saved
                THEN Both([app EXCEPT !.error = "Failed to save settings."], api)
                ELSE IF app.autoRefreshToggle
                THEN startAutoRefresh(kept, api, clock)
                ELSE Both(kept, api)
    IN  /\ app' = left.app
        /\ api' = left.api
        /\ pc' = "saved"
        /\ PageOnly

\* The pair filter, the minimum-profit field or the sort selector changes:
\* applyFilters().
ChangePairFilter(pairFilter) ==
    /\ app' = Applied([app EXCEPT !.pairFilter = pairFilter])
    /\ pc' = "filtered"
    /\ UNCHANGED api
    /\ PageOnly

ChangeMinProfit(value) ==
    /\ app' = Applied([app EXCEPT !.minProfitFilter = value])
    /\ pc' = "filtered"
    /\ UNCHANGED api
    /\ PageOnly

ChangeSortBy(sortBy) ==
    /\ app' = Applied([app EXCEPT !.sortBy = sortBy])
    /\ pc' = "filtered"
    /\ UNCHANGED api
    /\ PageOnly

\* loadDemoData(): the detector on the mock quotes, and applyFilters.
LoadDemoData ==
    /\ ~Resumed
    /\ LET threshold == <<ParsedMinProfit(app.minProfitFilter)>>
           found == calculateOpportunities(MockQuotes, fees, threshold, clock)
       IN  /\ quotes' = MockQuotes
           /\ minProfit' = threshold
           /\ quotesByPair' = groupByPair(MockQuotes)
           /\ opportunities' = found
           /\ app' = [Applied([app EXCEPT !.opportunities = found])
                         EXCEPT !.status = "Demo Mode", !.error = ""]
    /\ pc' = "demo"
    /\ UNCHANGED <<fees, clock, input, argument, output, api>>

\* The batches followed up on the page: every request of a call has failed,
\* or every request has come back with a book that has an ask and a bid.
ArrivingBatches(exchanges) ==
    {batch \in Batches(exchanges, 1, 1) :
        Len(batch) \in {0, Len(ConfiguredPairs) * Len(exchanges)}}

\* getAllQuotes, from the call that refresh awaits to its return, in one
\* step: every request has settled and batch is what they add up to.
GetAllQuotesReturns(batch) ==
    /\ app.isLoading
    /\ api.pair = 1
    /\ batch \in ArrivingBatches(app.exchanges)
    /\ api' = [api EXCEPT !.pair = Len(ConfiguredPairs) + 1,
                          !.allQuotes = batch,
                          !.settled = 1..Len(app.exchanges),
                          !.delaying = FALSE,
                          !.issued = IssuedUpTo(Len(ConfiguredPairs), app.exchanges),
                          !.inflight = {}]
    /\ pc' = "arrived"
    /\ UNCHANGED <<quotes, fees, minProfit, quotesByPair, opportunities, clock,
                   input, argument, output, app>>

\* The page with its refresh button, its demo button and its filters.
NextLoads ==
    \/ ClickRefresh
    \/ OpenSettings
    \/ \E pairFilter \in PairFilterValues : ChangePairFilter(pairFilter)
    \/ \E value \in MinProfitValues : ChangeMinProfit(value)
    \/ \E sortBy \in SortByValues : ChangeSortBy(sortBy)
    \/ LoadDemoData
    \/ \E batch \in ArrivingBatches(app.exchanges) : GetAllQuotesReturns(batch)
    \/ RefreshNoData
    \/ RefreshDetect
    \/ RefreshThrows

SpecLoads == InitLoads /\ [][NextLoads]_vars

\* The page with its refresh button, its auto-refresh box and its settings.
NextTimers ==
    \/ ClickRefresh
    \/ TimerFires
    \/ ToggleAutoRefresh
    \/ \E selected, saved, key \in BOOLEAN : SaveSettings(selected, saved, key)
    \/ \E batch \in ArrivingBatches(app.exchanges) : GetAllQuotesReturns(batch)
    \/ RefreshNoData
    \/ RefreshDetect
    \/ RefreshThrows

SpecTimers == InitLoads /\ [][NextTimers]_vars

\* ------------------------------------------------------ request, in use

\* The last tick at which a request is made or settles.
MaxRequestClock == 2

\* The URLs asked for: the order books of every pair on one exchange.
RequestedUrls == {Url("BINANCE", pair) : pair \in Pairs}

\* What a fetch of url can settle with.
ResponsesOf(url) ==
    Responses(url[1], CHOOSE pair \in Pairs : formatPair(pair) = url[3])

InitRequest ==
    /\ quotes = <<>>
    /\ app = Constructed(TRUE, <<"BINANCE", "COINBASE">>)
    /\ Fresh

\* CoinAPI.request(endpoint, apiKey) up to its return from the cache or up
\* to its await of fetch.  No second request is made for a URL while one is
\* in flight, as under the application's isLoading guard.
Request(url) ==
    /\ url \notin api.inflight
    /\ argument' = url
    /\ IF CacheHit(api.cache, url, clock)
       THEN /\ output' = api.cache[url][1].data
            /\ pc' = "cached"
            /\ api' = api
       ELSE /\ output' = <<>>
            /\ pc' = "requested"
            /\ api' = [api EXCEPT !.inflight = @ \cup {url}]
    /\ UNCHANGED <<quotes, fees, minProfit, quotesByPair, opportunities, clock,
                   input, app>>

\* The fetch of url settles: request stores and returns the data of a
\* response that is OK, and throws for any other.
RequestSettles(url, response) ==
    /\ url \in api.inflight
    /\ response \in ResponsesOf(url)
    /\ argument' = url
    /\ output' = response.data
    /\ pc' = IF response.ok THEN "fetched" ELSE "failed"
    /\ api' = [api EXCEPT !.inflight = @ \ {url},
                          !.cache = Stored(@, url, response, clock)]
    /\ UNCHANGED <<quotes, fees, minProfit, quotesByPair, opportunities, clock,
                   input, app>>

\* Ten seconds pass.
Tick ==
    /\ clock < MaxRequestClock
    /\ clock' = clock + 1
    /\ pc' = "ticked"
    /\ UNCHANGED <<quotes, fees, minProfit, quotesByPair, opportunities,
                   input, argument, output, app, api>>

NextRequest ==
    \/ \E url \in RequestedUrls : Request(url)
    \/ \E url \in RequestedUrls :
           \E response \in ResponsesOf(url) : RequestSettles(url, response)
    \/ Tick

SpecRequest == InitRequest /\ [][NextRequest]_vars

\* ------------------------------------------------------- claims: helpers

Returned == pc = "returned"

\* The threshold in force during the call that returned.
Threshold == EffectiveMinProfit(minProfit)

Positions == 1..Len(quotes)

Results == 1..Len(opportunities)

\* Whether positions i and j of the input can be the buy and the sell leg
\* of opportunity o.
IsLegsOf(o, i, j) ==
    /\ quotes[i].pair = o.pair
    /\ quotes[j].pair = o.pair
    /\ quotes[i].exchange = o.buyExchange
    /\ quotes[j].exchange = o.sellExchange
    /\ quotes[i].ask = o.buyPrice
    /\ quotes[j].bid = o.sellPrice
    /\ Min(quotes[i].askVolume, quotes[j].bidVolume) = o.volume

\* No two quotes of the input share both the exchange and the pair.
NoDuplicateQuotes ==
    \A i, j \in Positions :
        i # j => ~(quotes[i].exchange = quotes[j].exchange /\ quotes[i].pair = quotes[j].pair)

\* An opportunity without its timestamp.
Content(o) == [f \in DOMAIN o \ {"timestamp"} |-> o[f]]

\* ------------------------------------------------------------------ C1

\* C1: every opportunity returned by calculateOpportunities has sellPrice
\* strictly above buyPrice and a netProfit at or above the threshold of the
\* call (the default 0.5 when the caller passes none).
C1_ProfitableAndAboveThreshold ==
    Returned =>
        \A k \in Results :
            /\ opportunities[k].sellPrice > opportunities[k].buyPrice
            /\ opportunities[k].netProfit.num
                   >= Threshold * opportunities[k].netProfit.den

\* A call with threshold 0.5 that returned something while a candidate with
\* a price gap stayed below the threshold.
C1_Witness ==
    /\ Returned
    /\ Threshold = 5
    /\ opportunities # <<>>
    /\ \E i, j \in Positions :
           /\ i # j
           /\ quotes[i].pair = quotes[j].pair
           /\ quotes[j].bid > quotes[i].ask
           /\ \A k \in Results : ~IsLegsOf(opportunities[k], i, j)

\* ------------------------------------------------------------------ C2

\* C2 as stated: for every input, duplicates of one exchange and pair
\* included, no returned opportunity has buyExchange = sellExchange.
C2_NeverSameExchange ==
    Returned =>
        \A k \in Results : opportunities[k].buyExchange # opportunities[k].sellExchange

\* C2 amended: for every input in which no two quotes share both the
\* exchange and the pair, no returned opportunity has buyExchange =
\* sellExchange.
C2_NeverSameExchangeWithoutDuplicates ==
    (Returned /\ NoDuplicateQuotes) =>
        \A k \in Results : opportunities[k].buyExchange # opportunities[k].sellExchange

\* An input without duplicates that holds a crossed book next to another
\* quote of its pair, for which the call returned something.
C2_Witness ==
    /\ Returned
    /\ NoDuplicateQuotes
    /\ opportunities # <<>>
    /\ \E i, j \in Positions :
           /\ i # j
           /\ quotes[i].pair = quotes[j].pair
           /\ quotes[i].bid > quotes[i].ask
           /\ quotes[i].bid * 1000 - quotes[i].ask * 1000
                  >= (Threshold + 2 * FeeFor(fees, quotes[i].exchange)) * quotes[i].ask

\* ------------------------------------------------------------------ C3

\* The ordered pairs of input positions the claim says are reported.
ProfitableLegs ==
    { p \in Positions \X Positions :
        /\ p[1] # p[2]
        /\ quotes[p[1]].pair = quotes[p[2]].pair
        /\ quotes[p[2]].bid > quotes[p[1]].ask
        /\ (quotes[p[2]].bid - quotes[p[1]].ask) * 1000
               - (FeeFor(fees, quotes[p[1]].exchange) + FeeFor(fees, quotes[p[2]].exchange))
                     * quotes[p[1]].ask
           >= Threshold * quotes[p[1]].ask }

LegsKey(p) ==
    <<quotes[p[1]].pair, quotes[p[1]].exchange, quotes[p[1]].ask,
      quotes[p[2]].exchange, quotes[p[2]].bid,
      Min(quotes[p[1]].askVolume, quotes[p[2]].bidVolume)>>

OpportunityKey(o) ==
    <<o.pair, o.buyExchange, o.buyPrice, o.sellExchange, o.sellPrice, o.volume>>

\* The input of the spec's scenario A, in price units of 10 USD.
IsScenarioA ==
    /\ Len(quotes) = 2
    /\ quotes[1].exchange = "BINANCE" /\ quotes[1].pair = "BTC/USDT"
    /\ quotes[1].ask = 4200 /\ quotes[1].bid = 4199
    /\ quotes[2].exchange = "COINBASE" /\ quotes[2].pair = "BTC/USDT"
    /\ quotes[2].ask = 4250 /\ quotes[2].bid = 4248
    /\ DOMAIN fees = {"BINANCE", "COINBASE"}
    /\ fees["BINANCE"] = 1 /\ fees["COINBASE"] = 6

\* C3: the result holds exactly one opportunity for every ordered pair
\* (i, j), i # j, of quotes of one pair with quotes[j].bid > quotes[i].ask
\* and a fee-adjusted net profit at or above the threshold, and nothing
\* else; scenario A yields the one opportunity buy BINANCE / sell COINBASE
\* at threshold 0 and none at threshold 0.5.
C3_CompleteAndExact ==
    Returned =>
        /\ Len(opportunities) = Cardinality(ProfitableLegs)
        /\ \A key \in { LegsKey(p) : p \in ProfitableLegs }
                      \cup { OpportunityKey(opportunities[k]) : k \in Results } :
               Cardinality({ k \in Results : OpportunityKey(opportunities[k]) = key })
                   = Cardinality({ p \in ProfitableLegs : LegsKey(p) = key })
        /\ (IsScenarioA /\ minProfit = <<0>>) =>
               /\ Len(opportunities) = 1
               /\ opportunities[1].buyExchange = "BINANCE"
               /\ opportunities[1].buyPrice = 4200
               /\ opportunities[1].sellExchange = "COINBASE"
               /\ opportunities[1].sellPrice = 4248
               /\ opportunities[1].totalFee = 7
               \* grossProfit 1.1428..% and netProfit 0.4428..%, in hundred-thousandths
               /\ (opportunities[1].grossProfit.num * 10000)
                      \div opportunities[1].grossProfit.den = 114285
               /\ (opportunities[1].netProfit.num * 10000)
                      \div opportunities[1].netProfit.den = 44285
        /\ (IsScenarioA /\ Threshold = 5) => opportunities = <<>>

\* Scenario A called with threshold 0, its one opportunity returned while
\* the opposite direction (buy COINBASE / sell BINANCE) is not.
C3_Witness ==
    /\ Returned
    /\ IsScenarioA
    /\ minProfit = <<0>>
    /\ Len(opportunities) = 1

\* ------------------------------------------------------------------ C4

\* C4: the returned sequence is non-increasing in netProfit over the whole
\* result, whatever the pairs of its elements.
C4_NonIncreasingNetProfit ==
    Returned =>
        \A k \in Results :
            k < Len(opportunities) =>
                opportunities[k].netProfit.num * opportunities[k + 1].netProfit.den
                    >= opportunities[k + 1].netProfit.num * opportunities[k].netProfit.den

\* A result in which an opportunity of the pair grouped second comes
\* strictly ahead of one of the pair grouped first: the sort moved it
\* across the groups.
C4_Witness ==
    /\ Returned
    /\ Len(quotesByPair) = 2
    /\ \E k \in Results :
           /\ k < Len(opportunities)
           /\ opportunities[k].pair = quotesByPair[2].pair
           /\ opportunities[k + 1].pair = quotesByPair[1].pair
           /\ opportunities[k].netProfit.num * opportunities[k + 1].netProfit.den
                  > opportunities[k + 1].netProfit.num * opportunities[k].netProfit.den

\* ------------------------------------------------------------------ C5

\* C5: for every other threshold at or below the one of the call that
\* returned, a call on the same quotes and fees made now returns every
\* opportunity of
\* the result, compared without timestamps and counted with multiplicity;
\* so the result is never the longer one.
C5_ThresholdMonotone ==
    Returned =>
        \A arg \in MinProfits \ {minProfit} :
            EffectiveMinProfit(arg) <= Threshold =>
                LET lower == calculateOpportunities(quotes, fees, arg, clock)
                    mine == [k \in Results |-> Content(opportunities[k])]
                    theirs == [k \in 1..Len(lower) |-> Content(lower[k])]
                IN  /\ Len(mine) <= Len(theirs)
                    /\ \A k \in Results :
                           Cardinality({ m \in Results : mine[m] = mine[k] })
                               <= Cardinality({ m \in 1..Len(theirs) : theirs[m] = mine[k] })

\* A call at threshold 0.5 that returned something, where the call at
\* threshold 0 made now returns strictly more, under a later timestamp.
C5_Witness ==
    /\ Returned
    /\ Threshold = 5
    /\ opportunities # <<>>
    /\ LET lower == calculateOpportunities(quotes, fees, <<0>>, clock)
       IN  /\ Len(lower) > Len(opportunities)
           /\ lower[1].timestamp # opportunities[1].timestamp

\* ------------------------------------------------------------------ C6

\* C6: an exchange with no entry in the fee schedule is charged exactly 0.1
\* on the buy leg and on the sell leg of every opportunity it takes part in.
C6_MissingFeeIsDefault ==
    Returned =>
        \A k \in Results :
            /\ opportunities[k].buyExchange \notin DOMAIN fees
                   => opportunities[k].buyFee = 1
            /\ opportunities[k].sellExchange \notin DOMAIN fees
                   => opportunities[k].sellFee = 1

\* A result with an exchange that has no entry on a buy leg and one on a
\* sell leg, next to a leg whose exchange has an entry.
C6_Witness ==
    /\ Returned
    /\ \E k \in Results : opportunities[k].buyExchange \notin DOMAIN fees
    /\ \E k \in Results : opportunities[k].sellExchange \notin DOMAIN fees
    /\ \E k \in Results : opportunities[k].buyExchange \in DOMAIN fees

\* ------------------------------------------------------------------ C7

\* C7: an exchange with an entry in the fee schedule is charged exactly
\* that entry on each leg, an entry of 0 included, and totalFee is the sum
\* of the two entries charged.
C7_ConfiguredFeeIsCharged ==
    Returned =>
        \A k \in Results :
            /\ opportunities[k].buyExchange \in DOMAIN fees
                   => opportunities[k].buyFee = fees[opportunities[k].buyExchange]
            /\ opportunities[k].sellExchange \in DOMAIN fees
                   => opportunities[k].sellFee = fees[opportunities[k].sellExchange]
            /\ opportunities[k].totalFee
                   = opportunities[k].buyFee + opportunities[k].sellFee

\* ------------------------------------------------------------------ C8

\* C8: every opportunity has a buy leg i and a sell leg j # i among the
\* quotes of its pair with buyPrice = quotes[i].ask, sellPrice =
\* quotes[j].bid, volume = min(quotes[i].askVolume, quotes[j].bidVolume),
\* and spread = sellPrice - buyPrice > 0, totalFee = buyFee + sellFee,
\* grossProfit = (sellPrice - buyPrice) / buyPrice * 100 and netProfit =
\* grossProfit - totalFee.
C8_FieldEquations ==
    Returned =>
        \A k \in Results :
            LET o == opportunities[k]
            IN  /\ \E i, j \in Positions : i # j /\ IsLegsOf(o, i, j)
                /\ o.spread = o.sellPrice - o.buyPrice
                /\ o.spread > 0
                /\ o.totalFee = o.buyFee + o.sellFee
                /\ o.grossProfit.den > 0
                /\ o.grossProfit.num * o.buyPrice
                       = (o.sellPrice - o.buyPrice) * 1000 * o.grossProfit.den
                /\ o.netProfit.den > 0
                /\ o.netProfit.num * o.grossProfit.den
                       = (o.grossProfit.num - o.totalFee * o.grossProfit.den)
                             * o.netProfit.den

\* A result with one opportunity whose volume is the buy leg's askVolume
\* (the smaller side) and one whose volume is the sell leg's bidVolume.
C8_Witness ==
    /\ Returned
    /\ \E k \in Results : \E i, j \in Positions :
           /\ i # j /\ IsLegsOf(opportunities[k], i, j)
           /\ quotes[i].askVolume < quotes[j].bidVolume
    /\ \E k \in Results : \E i, j \in Positions :
           /\ i # j /\ IsLegsOf(opportunities[k], i, j)
           /\ quotes[j].bidVolume < quotes[i].askVolume

\* ------------------------------------------------------------------ C9

\* C9: both legs of every opportunity are quotes of the opportunity's
\* pair; and groupByPair has one group per pair of the input, each group
\* holding exactly the input's quotes of its pair in input order, so that
\* every quote is in exactly one group.
C9_GroupedByPair ==
    Returned =>
        /\ \A k \in Results :
               \E i, j \in Positions :
                   /\ i # j
                   /\ IsLegsOf(opportunities[k], i, j)
                   /\ quotes[i].pair = opportunities[k].pair
                   /\ quotes[j].pair = opportunities[k].pair
        /\ \A g, h \in 1..Len(quotesByPair) :
               quotesByPair[g].pair = quotesByPair[h].pair => g = h
        /\ { quotesByPair[g].pair : g \in 1..Len(quotesByPair) }
               = { quotes[i].pair : i \in Positions }
        /\ \A g \in 1..Len(quotesByPair) :
               /\ quotesByPair[g].quotes
                      = SelectSeq(quotes, LAMBDA q : q.pair = quotesByPair[g].pair)
               /\ \A m \in 1..Len(quotesByPair[g].quotes) :
                      quotesByPair[g].quotes[m].pair = quotesByPair[g].pair

\* An input that alternates between two pairs, two quotes of each, for
\* which the call returned something.
C9_Witness ==
    /\ Returned
    /\ Len(quotes) = 4
    /\ quotes[1].pair # quotes[2].pair
    /\ quotes[3].pair = quotes[1].pair
    /\ quotes[4].pair = quotes[2].pair
    /\ opportunities # <<>>

\* ------------------------------------------------------------------ C10

\* Within every pair, no quote's bid is above another quote's ask.
NoPriceGap ==
    \A i, j \in Positions :
        (i # j /\ quotes[i].pair = quotes[j].pair) => quotes[j].bid <= quotes[i].ask

\* C10: when within every pair no quote's bid is strictly above another
\* quote's ask (groups of fewer than two quotes included), the call returns
\* the empty sequence, for any fees and any threshold.
C10_NoGapNoOpportunity ==
    (Returned /\ NoPriceGap) => opportunities = <<>>

\* Scenario B: three exchanges quoting the same ask and bid for one pair, a
\* call with a threshold below zero, and an empty result.
C10_Witness ==
    /\ Returned
    /\ NoPriceGap
    /\ Len(quotes) = 3
    /\ Cardinality({ quotes[i].exchange : i \in Positions }) = 3
    /\ \A i \in Positions :
           /\ quotes[i].pair = quotes[1].pair
           /\ quotes[i].ask = quotes[1].ask
           /\ quotes[i].bid = quotes[1].bid
    /\ minProfit = <<-20>>
    /\ opportunities = <<>>

\* ------------------------------------------------------------------ C11

Contents(opps) == [k \in 1..Len(opps) |-> Content(opps[k])]

AnalyticsCalls ==
    ArrayCalls \cup {"getStats", "calculateProfitAmount", "isValid"}

\* C12: no call of the detector or of the analytics changes what it was
\* given: across calculateOpportunities the quotes and the fee schedule, and
\* across filterByPair, filterByMinProfit, sort, getStats and
\* calculateProfitAmount the sequence of opportunities, keep their elements,
\* their order and their field values.
C12_InputsUnchanged ==
    [][/\ pc' = "returned" => quotes' = quotes /\ fees' = fees
       /\ pc' \in AnalyticsCalls =>
              input' = input /\ opportunities' = opportunities
              /\ quotes' = quotes /\ fees' = fees]_vars

\* sort has returned another order than it was given, the input being as
\* it was handed over.
C12_Witness ==
    /\ pc = "sort"
    /\ Len(input) >= 2
    /\ output # input
    /\ input \in {opportunities, filterByPair(opportunities, <<"BTC/USDT">>)}

\* ------------------------------------------------------------------ C13

RECURSIVE ProfitFrom(_, _)
ProfitFrom(opps, k) ==
    IF k > Len(opps) THEN Number(0)
    ELSE Plus(opps[k].netProfit, ProfitFrom(opps, k + 1))

RECURSIVE VolumeFrom(_, _)
VolumeFrom(opps, k) ==
    IF k > Len(opps) THEN 0 ELSE opps[k].volume + VolumeFrom(opps, k + 1)

\* C13: getStats of no opportunities returns count 0, avgProfit 0,
\* maxProfit 0 and totalVolume 0; of a non-empty sequence it returns its
\* length as count, the sum of the netProfit over the count as avgProfit,
\* the largest netProfit as maxProfit and the sum of the volume as
\* totalVolume.
C13_Stats ==
    pc = "getStats" =>
        IF input = <<>>
        THEN output = [count |-> 0, avgProfit |-> Number(0),
                       maxProfit |-> Number(0), totalVolume |-> 0]
        ELSE /\ output.count = Len(input)
             /\ IsFinite(output.avgProfit)
             /\ Times(output.avgProfit, Number(Len(input))) = ProfitFrom(input, 1)
             /\ \E k \in 1..Len(input) : output.maxProfit = input[k].netProfit
             /\ \A k \in 1..Len(input) : RatGeq(output.maxProfit, input[k].netProfit)
             /\ output.totalVolume = VolumeFrom(input, 1)

\* getStats of three opportunities or more that are not in the order of
\* their netProfit.
C13_Witness ==
    /\ pc = "getStats"
    /\ Len(input) >= 3
    /\ \E i, j \in 1..Len(input) :
           i < j /\ RatCmp(input[i].netProfit, input[j].netProfit) < 0
    /\ output.totalVolume > input[1].volume

\* ------------------------------------------------------------------ C14

\* The elements of seq at the positions of S from k on, in their order.
RECURSIVE Pick(_, _, _)
Pick(seq, S, k) ==
    IF k > Len(seq) THEN <<>>
    ELSE (IF k \in S THEN <<seq[k]>> ELSE <<>>) \o Pick(seq, S, k + 1)

\* C14: filterByPair returns every opportunity it was given, in the given
\* order, when pair is the empty string, left out or "all"; for another
\* value it returns those of that pair and no other, in the given order.
C14_FilterByPair ==
    pc = "filterByPair" =>
        IF argument \in {Omitted, <<"">>, <<"all">>}
        THEN output = input
        ELSE output = Pick(input,
                           {k \in 1..Len(input) : input[k].pair = argument[1]}, 1)

\* A pair was asked for, and some opportunities were kept and some dropped.
C14_Witness ==
    /\ pc = "filterByPair"
    /\ argument = <<"ETH/USDT">>
    /\ output # <<>>
    /\ Len(output) < Len(input)

\* ------------------------------------------------------------------ C15

\* C15: filterByMinProfit returns the opportunities whose netProfit is at or
\* above the threshold and no other, in the given order; given a result of
\* calculateOpportunities and the threshold of that call, it drops nothing.
C15_FilterByMinProfit ==
    pc = "filterByMinProfit" =>
        /\ output = Pick(input,
                         {k \in 1..Len(input) :
                              RatCmp(input[k].netProfit, Number(argument[1])) >= 0}, 1)
        /\ (input = opportunities /\ argument[1] = Threshold) => output = input

\* An opportunity whose netProfit is the threshold itself was kept, another
\* was dropped.
C15_Witness ==
    /\ pc = "filterByMinProfit"
    /\ \E k \in 1..Len(output) :
           RatCmp(output[k].netProfit, Number(argument[1])) = 0
    /\ Len(output) < Len(input)

\* ------------------------------------------------------------------ C16

\* How often x occurs in seq.
Occurrences(seq, x) == Cardinality({k \in 1..Len(seq) : seq[k] = x})

\* C16: sort returns a permutation of what it was given: for 'profit' in
\* non-increasing netProfit, for 'pair' in non-decreasing pair, for 'spread'
\* in non-increasing spread; for a key it does not know it returns the given
\* order.
C16_Sorted ==
    pc = "sort" =>
        /\ Len(output) = Len(input)
        /\ \A k \in 1..Len(input) :
               Occurrences(output, input[k]) = Occurrences(input, input[k])
        /\ \A i, j \in 1..Len(output) :
               i < j =>
                   /\ argument = <<"profit">> =>
                          RatCmp(output[i].netProfit, output[j].netProfit) >= 0
                   /\ argument = <<"pair">> =>
                          ~(output[i].pair = "ETH/USDT" /\ output[j].pair = "BTC/USDT")
                   /\ argument = <<"spread">> =>
                          output[i].spread >= output[j].spread
        /\ argument[1] \notin SortKeys => output = input

\* sort by spread has moved an opportunity.
C16_Witness ==
    /\ pc = "sort"
    /\ argument = <<"spread">>
    /\ output # input

\* ------------------------------------------------------------------ C17

\* C17: isValid returns true exactly when the opportunity is younger than
\* maxAge (60000 ms when the caller passes none) and its netProfit is above
\* zero, so an opportunity aged maxAge or of netProfit zero is not valid; the
\* call changes nothing it was given.
C17_ValidWhenFreshAndProfitable ==
    [][pc' = "isValid" =>
          LET opportunity == input[argument'[1]]
              maxAge == IF argument'[2] = Omitted THEN DefaultMaxAge
                        ELSE argument'[2][1]
          IN  /\ output' = (/\ clock' - opportunity.timestamp.iso < maxAge
                            /\ opportunity.netProfit.num > 0)
              /\ input' = input
              /\ opportunities' = opportunities]_vars

\* An opportunity of positive netProfit, aged maxAge to the tick, is found
\* not valid.
C17_Witness ==
    /\ pc = "isValid"
    /\ input[argument[1]].netProfit.num > 0
    /\ argument[2] = Omitted
    /\ clock - input[argument[1]].timestamp.iso = DefaultMaxAge
    /\ output = FALSE

\* ------------------------------------------------------------------ C18

\* C18: the amounts calculateProfitAmount returns satisfy its equations:
\* buyAmount is investment / buyPrice, buyFeeAmount is buyAmount * buyFee /
\* 100, netBuyAmount is their difference, sellValue is netBuyAmount *
\* sellPrice, sellFeeAmount is sellValue * sellFee / 100, netSellValue is
\* their difference, profit is netSellValue - investment and profitPercent
\* is profit / investment * 100; for scenario C with 1000 USD buyAmount is
\* 0.0238095.
C18_ProfitBreakdown ==
    pc = "calculateProfitAmount" =>
        LET opportunity == argument[1]
            investment == Number(argument[2])
        IN  /\ output.investmentAmount = investment
            /\ Times(output.buyAmount, Number(opportunity.buyPrice)) = investment
            /\ Times(output.buyFeeAmount, Number(1000))
                   = Times(output.buyAmount, Number(opportunity.buyFee))
            /\ Plus(output.netBuyAmount, output.buyFeeAmount) = output.buyAmount
            /\ output.sellValue
                   = Times(output.netBuyAmount, Number(opportunity.sellPrice))
            /\ Times(output.sellFeeAmount, Number(1000))
                   = Times(output.sellValue, Number(opportunity.sellFee))
            /\ Plus(output.netSellValue, output.sellFeeAmount) = output.sellValue
            /\ Plus(output.profit, investment) = output.netSellValue
            /\ IF argument[2] = 0
               THEN output.profitPercent = NaN
               ELSE Times(output.profitPercent, investment)
                        = Times(output.profit, Number(100))
            /\ (opportunity = ScenarioC /\ argument[2] = 100) =>
                   /\ (output.buyAmount.num * 10000000) \div output.buyAmount.den
                          = 238095
                   /\ output.profit = Rat(1931, 4000)

\* Scenario C, costed for 1000 USD.
C18_Witness ==
    /\ pc = "calculateProfitAmount"
    /\ argument = <<ScenarioC, 100>>

\* ------------------------------------------------------------------ C19

\* The result of a call that was rejected.
Rejected(result) == "error" \in DOMAIN result

\* C19: calculateProfitAmount rejects an investmentAmount of zero or below
\* with a validation error, and returns no profit for it.
C19_NonPositiveInvestmentRejected ==
    (pc = "calculateProfitAmount" /\ argument[2] <= 0) => Rejected(output)

\* ------------------------------------------------------------------ C20

\* The position of x in seq.
PositionIn(seq, x) == CHOOSE k \in 1..Len(seq) : seq[k] = x

C21_OnePairAtATime ==
    [][/\ (api'.issued # api.issued /\ api'.pair >= 1) =>
              /\ api'.issued = IssuedUpTo(api'.pair, app.exchanges)
              /\ api'.pair > 1 =>
                     /\ api.pair = api'.pair - 1
                     /\ api.issued = IssuedUpTo(api.pair, app.exchanges)
                     /\ api.settled = 1..Len(app.exchanges)
                     /\ api.inflight = {}
                     /\ api.delaying
       /\ Resumed' =>
              /\ api'.issued = IssuedUpTo(Len(ConfiguredPairs), app.exchanges)
              /\ api'.inflight = {}
              /\ \A m, n \in 1..Len(api'.issued) :
                     api'.issued[m] = api'.issued[n] => m = n]_vars

\* The second pair has been requested on three exchanges, one request of the
\* first pair having failed and one of the second having settled.
C21_Witness ==
    /\ api.pair = 2
    /\ Len(app.exchanges) = 3
    /\ Len(api.issued) = 6
    /\ Len(api.allQuotes) = 2
    /\ api.settled # {}
    /\ api.inflight # {}

\* ------------------------------------------------------------------ C22

\* C22: a request for a URL that has an entry stored less than
\* cacheDuration ago returns the entry's data, starts no fetch and leaves
\* the cache alone; a request for a URL with no entry, or with one stored
\* cacheDuration ago or earlier, starts a fetch; and the cache changes only
\* when a fetch settles with a response that is OK, and then only in the
\* entry of its URL, which becomes the data returned, stamped with the time
\* of the settling: a failed request leaves the cache as it was.
C22_Cache ==
    [][/\ pc' \in {"cached", "requested"} =>
              LET entry == api.cache[argument']
              IN  IF entry # <<>> /\ (clock - entry[1].timestamp) * 10000 < 10000
                  THEN /\ pc' = "cached"
                       /\ output' = entry[1].data
                       /\ api' = api
                  ELSE /\ pc' = "requested"
                       /\ argument' \in api'.inflight
                       /\ api'.cache = api.cache
       /\ api'.cache # api.cache =>
              /\ pc' = "fetched"
              /\ argument' \in api.inflight
              /\ output' # <<>>
              /\ api'.cache = [api.cache EXCEPT ![argument'] =
                                   <<[data |-> output', timestamp |-> clock]>>]
       /\ pc' = "failed" => api'.cache = api.cache]_vars

\* A request has just been answered from the cache while the other URL,
\* whose entry has reached cacheDuration, is being fetched again.
C22_Witness ==
    /\ pc = "cached"
    /\ output # <<>>
    /\ \E url \in RequestedUrls :
           /\ url \in api.inflight
           /\ api.cache[url] # <<>>
           /\ clock - api.cache[url][1].timestamp >= CacheDuration

\* ------------------------------------------------------------------ C23

\* C23: never are two calls of getAllQuotes in flight; and a call of
\* refresh made while isLoading is true, whether by a click on the button,
\* by a tick of the timer or as the initial refresh of startAutoRefresh,
\* fetches nothing and changes neither opportunities nor
\* filteredOpportunities, neither the status nor the error (the status
\* that saveSettings itself writes before it starts the timer aside).
C23_OneRefreshInFlight ==
    /\ [](api.calls <= 1 /\ (api.calls = 1 <=> app.isLoading))
    /\ [][(app.isLoading /\ pc' \in {"refresh", "timer", "started", "saved"}) =>
              /\ api' = api
              /\ app'.isLoading
              /\ app'.opportunities = app.opportunities
              /\ app'.filteredOpportunities = app.filteredOpportunities
              /\ app'.error = app.error \/ pc' = "saved"
              /\ app'.status = app.status \/ pc' = "saved"]_vars

\* A tick of the timer has just been ignored: the refresh in flight began
\* before the settings were saved, whose status still stands, over the
\* opportunities of the refresh before.
C23_Witness ==
    /\ pc = "timer"
    /\ app.isLoading
    /\ app.status = "Settings saved"
    /\ app.opportunities # <<>>

\* ------------------------------------------------------------------ C24

\* C24: a refresh that has set isLoading sets it back to false in the end,
\* once its fetches settle, whether it finds quotes, finds none or throws;
\* and isLoading is false whenever no call of getAllQuotes is in flight, so
\* that the next refresh is let in.
C24_LoadingEnds ==
    /\ app.isLoading ~> ~app.isLoading
    /\ [](api.calls = 0 => ~app.isLoading)
    /\ [][pc' \in {"returned", "nodata", "error"} => ~app'.isLoading]_vars

\* A second refresh is loading: the requests of the first pair are in flight
\* while the cache holds a book of the second pair from the refresh before,
\* which found no data.
C24_Witness ==
    /\ app.isLoading
    /\ api.pair = 1
    /\ api.inflight # {}
    /\ \E url \in Urls : url[3] = "ETH_USDT" /\ api.cache[url] # <<>>

\* ------------------------------------------------------------------ C25

\* What the page shows of the application a by the claim: its opportunities
\* filtered by pair, then by minimum profit, then sorted, under the controls
\* as they stand.
Displayable(a) ==
    sort(filterByMinProfit(filterByPair(a.opportunities, a.pairFilter),
                           ParsedMinProfit(a.minProfitFilter)),
         a.sortBy)

\* C25: after a refresh that has come back, with quotes or with none, and
\* after a change of the pair filter, of the minimum-profit field or of the
\* sort selector, filteredOpportunities is the sorted, filtered list of the
\* current opportunities under the current controls, and every opportunity
\* in it is one of the current opportunities.
C25_DisplayedIsFiltered ==
    pc \in {"returned", "nodata", "filtered"} =>
        /\ app.filteredOpportunities = Displayable(app)
        /\ \A k \in 1..Len(app.filteredOpportunities) :
               \E m \in 1..Len(app.opportunities) :
                   app.opportunities[m] = app.filteredOpportunities[k]

\* ------------------------------------------------------------------ C26

\* C26: while isLoading is true, from the refresh that set it to the
\* finally of that refresh, this.opportunities is written by nothing but the
\* rest of that refresh; so that no load made in between is later
\* overwritten by the refresh.
C26_OnlyTheRefreshWrites ==
    [][(app.isLoading /\ app'.opportunities # app.opportunities) =>
           pc' \in {"returned", "nodata"}]_vars

\* ------------------------------------------------------------------ C27

\* C27: at any time at most one interval timer is live, and it is the one
\* autoRefreshInterval names, after any sequence of toggles, saved settings
\* and refreshes; after the box is switched off autoRefreshInterval is null
\* and no timer is live, so that a tick of the timer happens only between a
\* start and the next stop.
C27_OneTimer ==
    /\ [](/\ Cardinality(app.timers) <= 1
          /\ app.timers = IF app.autoRefreshInterval = 0 THEN {}
                          ELSE {app.autoRefreshInterval})
    /\ [][/\ pc' = "stopped" => (app'.autoRefreshInterval = 0 /\ app'.timers = {})
          /\ pc' = "timer" => (app.autoRefreshInterval # 0 /\ app.autoRefreshToggle)
          /\ pc' = "started" => Cardinality(app'.timers) = 1]_vars

\* The settings have just been saved with the box switched on and a refresh
\* in flight: the timer was started over.
C27_Witness ==
    /\ pc = "saved"
    /\ app.status = "Settings saved"
    /\ app.isLoading
    /\ app.autoRefreshToggle
    /\ app.autoRefreshInterval # 0

====
